---- MODULE Spec2Model ----
(***************************************************************************)
(* EduMarket booking backend: the POST /orders, PUT /lessons/:id,           *)
(* GET /search, GET /lessons and GET /orders handlers of the repository,   *)
(* over one shared store.                                                  *)
(*                                                                         *)
(*   variant = "simple"  src/server-simple.js  (in-memory arrays; every    *)
(*                       handler is synchronous, so it runs to completion  *)
(*                       as one step)                                      *)
(*   variant = "mongo1"  src/server.js lines 1-248   (MongoDB, first copy: *)
(*                       no name/phone pattern check, no PUT route)        *)
(*   variant = "mongo2"  src/server.js lines 249-574 (MongoDB, second copy)*)
(*                                                                         *)
(* In the MongoDB variants a handler is an async function: it gives up     *)
(* control at every await, so each store call is one step and the steps of *)
(* different requests interleave.                                          *)
(***************************************************************************)
EXTENDS Integers, Sequences, FiniteSets, TLC

VARIABLES
    variant,      \* which server file is running (fixed at start)
    lessons,      \* the catalog: sequence of lesson records (array / collection)
    orders,       \* the ledger: sequence of order records
    nextOrderId,  \* server-simple.js: let nextOrderId = 1
    req,          \* per request slot: the request, the handler's position, the response
    fails,        \* how many store calls have failed so far
    catalog0      \* history: the catalog the server started with

vars == <<variant, lessons, orders, nextOrderId, req, fails, catalog0>>

-----------------------------------------------------------------------------
(* Bounds of the model *)

NReq == 2        \* request slots
MaxItems == 2    \* line items per booking request
MaxQty == 2      \* largest quantity asked for (smallest is -1)
MaxFail == 1     \* store calls that fail in one run
MaxSpace == 2    \* largest space of a lesson in the starting catalog

Reqs == 1..NReq
Variants == {"simple", "mongo1", "mongo2"}

-----------------------------------------------------------------------------
(* Inputs *)

\* Characters, by the classes the two patterns distinguish.
Letters == {"a", "Z"}
Whitespace == {" "}
Digits == {"0", "7"}

GoodName == <<"a", " ", "Z">>
DigitName == <<"a", "7">>
GoodPhone == <<"0", "7">>
DashPhone == <<"0", "-">>
Empty == <<>>

\* Lesson ids. "L1", "L2" are in the catalog; "L9" is well formed and absent;
\* "zz" is not a 24-hex-character string (nor 12 bytes, nor an integer).
CatalogIds == <<"L1", "L2">>
AbsentId == "L9"
MalformedId == "zz"
RefIds == {"L1", "L2", AbsentId, MalformedId}

\* Text is a sequence of characters.
Mathematics == <<"M", "a", "t", "h", "e", "m", "a", "t", "i", "c", "s">>
Hendon == <<"H", "e", "n", "d", "o", "n">>
Colindale == <<"C", "o", "l", "i", "n", "d", "a", "l", "e">>

\* seedDatabase / initializeData: the first two lessons (subject Mathematics,
\* locations Hendon and Colindale) with their prices.
SeedSubject == <<Mathematics, Mathematics>>
SeedLocation == <<Hendon, Colindale>>
SeedPrice == <<100, 80>>

\* Line items: any quantity, negative and zero included, of a lesson of the
\* catalog; one unit of an id that is absent or malformed.
Qtys == -1..MaxQty
KnownIds == {CatalogIds[i] : i \in 1..Len(CatalogIds)}
Items ==
    [lessonId : KnownIds, quantity : Qtys]
    \cup [lessonId : {AbsentId, MalformedId}, quantity : {1}]

SeqsUpTo(S, n) == UNION {[1..m -> S] : m \in 0..n}
ItemSeqs == SeqsUpTo(Items, MaxItems)

NoPatch == <<>>

OrderBody(name, phone, items) ==
    [op |-> "order", name |-> name, phone |-> phone, items |-> items,
     id |-> "", patch |-> NoPatch, term |-> Empty]

UpdateBody(id, patch) ==
    [op |-> "update", name |-> Empty, phone |-> Empty, items |-> <<>>,
     id |-> id, patch |-> patch, term |-> Empty]

SearchBody(term) ==
    [op |-> "search", name |-> Empty, phone |-> Empty, items |-> <<>>,
     id |-> "", patch |-> NoPatch, term |-> term]

\* GET /lessons, GET /orders
ReadBody(op) ==
    [op |-> op, name |-> Empty, phone |-> Empty, items |-> <<>>,
     id |-> "", patch |-> NoPatch, term |-> Empty]
Reads == {"lessons", "orders"}

\* JSON values of a numeric field that are not numbers. They stand outside the
\* range of every number of the model: NaNText is a string such as "abc"
\* (Number("abc") is NaN), JsonNull is null (Number(null) is 0).
NaNText == 1000001
JsonNull == 1000002
NonNumbers == {NaNText, JsonNull}

\* Patches: any non-empty choice of the numeric fields, valid, negative or not
\* a number; and a patch that carries an _id next to a price.
PatchPrices == {-1, 90} \cup NonNumbers
PatchSpaces == (-1..MaxSpace) \cup NonNumbers
PatchIds == {"L2", AbsentId}
Patches ==
    {[price |-> p] : p \in PatchPrices}
    \cup {[space |-> s] : s \in PatchSpaces}
    \cup {[price |-> p, space |-> s] : p \in PatchPrices, s \in PatchSpaces}
    \cup {[_id |-> x, price |-> 90] : x \in PatchIds}

\* Search terms: part of a subject in another case, part of a location, digits
\* of a price and of a space, digits of nothing, a pattern character, nothing.
SearchTerms ==
    { <<"m", "A", "T", "h">>, <<"d", "a", "l", "e">>, <<"0">>, <<"8", "0">>,
      <<"2">>, <<"9", "9", "9">>, <<".">>, Empty }

\* A single request: every shape of booking, and every update.
OneItem == << [lessonId |-> "L1", quantity |-> 1] >>
Bodies ==
    {OrderBody(GoodName, GoodPhone, it) : it \in ItemSeqs}
    \cup {OrderBody(n, GoodPhone, OneItem) : n \in {DigitName, Empty}}
    \cup {OrderBody(GoodName, p, OneItem) : p \in {DashPhone, Empty}}
    \cup {UpdateBody(id, p) : id \in RefIds, p \in Patches}
    \cup {SearchBody(t) : t \in SearchTerms}
    \cup {ReadBody(op) : op \in Reads}

\* Requests that are in flight together: well-formed bookings of lessons of
\* the catalog, valid updates of a price or a space, a search and the reads.
ConcItems == [lessonId : KnownIds, quantity : 1..MaxQty]
ConcBodies ==
    {OrderBody(GoodName, GoodPhone, it) : it \in SeqsUpTo(ConcItems, MaxItems) \ {<<>>}}
    \cup {UpdateBody(id, [price |-> 90]) : id \in KnownIds}
    \cup {UpdateBody(id, [space |-> sp]) : id \in KnownIds, sp \in 0..MaxSpace}
    \cup {SearchBody(<<"0">>)}
    \cup {ReadBody(op) : op \in Reads}

\* Requests sent together to the in-memory server: bookings of one line item,
\* a booking that names one lesson twice, a booking with a bad name, updates
\* of a space and of a price.
SimpleBodies ==
    {OrderBody(GoodName, GoodPhone, <<[lessonId |-> "L1", quantity |-> n]>>) :
        n \in 1..MaxQty}
    \cup {OrderBody(GoodName, GoodPhone, <<[lessonId |-> "L2", quantity |-> 1]>>),
          OrderBody(GoodName, GoodPhone, OneItem \o OneItem),
          OrderBody(DigitName, GoodPhone, OneItem)}
    \cup {UpdateBody("L1", [space |-> sp]) : sp \in 0..MaxSpace}
    \cup {UpdateBody("L1", [price |-> 90])}

-----------------------------------------------------------------------------
(* Pure helpers *)

\* /^[a-zA-Z\s]+$/.test(name)
NameOK(s) == Len(s) > 0 /\ \A i \in 1..Len(s) : s[i] \in Letters \cup Whitespace

\* /^[0-9]+$/.test(phone)
PhoneOK(s) == Len(s) > 0 /\ \A i \in 1..Len(s) : s[i] \in Digits

\* A presence test that nothing fails.
MissingNever(s) == FALSE

\* !name, !phone, !q: undefined or the empty string
Missing(s) == Len(s) = 0

\* new ObjectId(x) throws, and ObjectId.isValid(x) is false, for such an x
ObjectIdIsValid(id) == id # MalformedId

\* lessons.find(l => l._id == id) / findOne({_id}): index of the first match, 0 if none
FindIndex(ls, id) ==
    IF \E i \in 1..Len(ls) : ls[i]._id = id
    THEN CHOOSE i \in 1..Len(ls) :
            /\ ls[i]._id = id
            /\ \A j \in 1..(i - 1) : ls[j]._id # id
    ELSE 0

\* CheckItem with the capacity comparison off by one (space < quantity - 1).
CheckItemOffByOne(ls, item) ==
    LET idx == FindIndex(ls, item.lessonId) IN
    IF idx = 0
    THEN [res |-> "notfound", arg |-> item.lessonId, where |-> <<>>, amount |-> 0]
    ELSE IF ls[idx].space < item.quantity - 1
    THEN [res |-> "capacity", arg |-> ls[idx]._id,
          where |-> <<ls[idx].subject, ls[idx].location>>, amount |-> 0]
    ELSE [res |-> "ok", arg |-> "", where |-> <<>>,
          amount |-> ls[idx].price * item.quantity]

\* One pass of the availability loop for one line item: look the lesson up,
\* compare its space with the quantity, price the item. The not-found message
\* carries the id asked for (arg); the capacity message carries the lesson's
\* subject and location (where), and arg records which lesson that was.
CheckItem(ls, item) ==
    LET idx == FindIndex(ls, item.lessonId) IN
    IF idx = 0
    THEN [res |-> "notfound", arg |-> item.lessonId, where |-> <<>>, amount |-> 0]
    ELSE IF ls[idx].space < item.quantity
    THEN [res |-> "capacity", arg |-> ls[idx]._id,
          where |-> <<ls[idx].subject, ls[idx].location>>, amount |-> 0]
    ELSE [res |-> "ok", arg |-> "", where |-> <<>>,
          amount |-> ls[idx].price * item.quantity]

\* The whole availability loop of the in-memory handler, from item k on.
RECURSIVE CheckFrom(_, _, _, _)
CheckFrom(ls, items, k, total) ==
    IF k > Len(items)
    THEN [res |-> "ok", arg |-> "", where |-> <<>>, total |-> total]
    ELSE LET c == CheckItem(ls, items[k]) IN
         IF c.res # "ok"
         THEN [res |-> c.res, arg |-> c.arg, where |-> c.where, total |-> total]
         ELSE CheckFrom(ls, items, k + 1, total + c.amount)

\* Decrement that takes one unit whatever the quantity.
DecrementByOne(ls, item) ==
    LET idx == FindIndex(ls, item.lessonId) IN
    IF idx = 0 THEN ls
    ELSE [ls EXCEPT ![idx].space = @ - 1]

\* lesson.space -= quantity / updateOne({_id}, {$inc: {space: -quantity}});
\* nothing happens when no lesson has the id.
Decrement(ls, item) ==
    LET idx == FindIndex(ls, item.lessonId) IN
    IF idx = 0 THEN ls
    ELSE [ls EXCEPT ![idx].space = @ - item.quantity]

\* The whole "update lesson spaces" loop of the in-memory handler.
RECURSIVE DecFrom(_, _, _)
DecFrom(ls, items, k) ==
    IF k > Len(items) THEN ls
    ELSE DecFrom(Decrement(ls, items[k]), items, k + 1)

\* History: what quantity * price comes to at the price a lesson has at the
\* moment its space is decremented.
PriceNow(ls, item) ==
    LET idx == FindIndex(ls, item.lessonId) IN
    IF idx = 0 THEN 0 ELSE ls[idx].price * item.quantity

RECURSIVE ResvFrom(_, _, _)
ResvFrom(ls, items, k) ==
    IF k > Len(items) THEN 0
    ELSE PriceNow(ls, items[k]) + ResvFrom(Decrement(ls, items[k]), items, k + 1)

\* The synchronous checks at the head of POST /orders: "" when they pass.
\* The first copy of server.js has only the presence check.
ValidateOrder(v, q) ==
    IF Missing(q.name) \/ Missing(q.phone) THEN "required"
    ELSE IF v # "mongo1" /\ ~NameOK(q.name) THEN "name"
    ELSE IF v # "mongo1" /\ ~PhoneOK(q.phone) THEN "phone"
    ELSE ""

\* isNaN(v): Number(v) is NaN. Number(null) is 0.
IsNaN(v) == v = NaNText

\* v < 0 after conversion to a number: false for NaN, false for null.
Negative(v) == v \notin NonNumbers /\ v < 0

\* The numeric checks of PUT /lessons/:id: "" when they pass.
ValidatePatch(patch) ==
    IF "price" \in DOMAIN patch /\ (IsNaN(patch.price) \/ Negative(patch.price))
    THEN "price"
    ELSE IF "space" \in DOMAIN patch /\ (IsNaN(patch.space) \/ Negative(patch.space))
    THEN "space"
    ELSE ""

\* delete updates._id
DeleteId(patch) == [f \in DOMAIN patch \ {"_id"} |-> patch[f]]

\* Object.assign(lesson, updates) / {$set: updates}
Assign(lesson, patch) ==
    [f \in DOMAIN lesson \cup DOMAIN patch |->
        IF f \in DOMAIN patch THEN patch[f] ELSE lesson[f]]

\* Push that keeps only the newest order.
PushOverwriting(os, o) == <<o>>

\* orders.push(order) / ordersCollection.insertOne(order)
Push(os, o) == Append(os, o)

\* String.prototype.toLowerCase, on the letters the model uses in upper case.
UpperCase == <<"A", "C", "H", "M", "T", "Z">>
LowerCase == <<"a", "c", "h", "m", "t", "z">>
LowerChar(c) ==
    IF \E i \in 1..Len(UpperCase) : UpperCase[i] = c
    THEN LowerCase[CHOOSE i \in 1..Len(UpperCase) : UpperCase[i] = c]
    ELSE c
ToLowerCase(s) == [i \in 1..Len(s) |-> LowerChar(s[i])]

\* String.prototype.includes
Includes(s, t) ==
    \E i \in 0..(Len(s) - Len(t)) : \A j \in 1..Len(t) : s[i + j] = t[j]

\* Number.prototype.toString of an integer
DecimalDigit == <<"0", "1", "2", "3", "4", "5", "6", "7", "8", "9">>
RECURSIVE DigitsOf(_)
DigitsOf(n) ==
    IF n < 10 THEN <<DecimalDigit[n + 1]>>
    ELSE Append(DigitsOf(n \div 10), DecimalDigit[(n % 10) + 1])
NumToString(n) == IF n < 0 THEN <<"-">> \o DigitsOf(-n) ELSE DigitsOf(n)

\* The filter of the in-memory search.
SimpleMatches(lesson, searchTerm) ==
    \/ Includes(ToLowerCase(lesson.subject), searchTerm)
    \/ Includes(ToLowerCase(lesson.location), searchTerm)
    \/ Includes(NumToString(lesson.price), searchTerm)
    \/ Includes(NumToString(lesson.space), searchTerm)

\* new RegExp(q, 'i') found somewhere in text s: a character of q stands for
\* itself in either case, "." for any character.
RegExpI(q, s) ==
    \E i \in 0..(Len(s) - Len(q)) :
        \A j \in 1..Len(q) : q[j] = "." \/ LowerChar(q[j]) = LowerChar(s[i + j])

\* { field: { $regex: q } } on a field that holds a number: $regex selects
\* string values only, and price and space are stored as numbers.
RegexOnNumber(q, n) == FALSE

\* The $or filter of the document-store search.
MongoMatches(lesson, q) ==
    \/ RegExpI(q, lesson.subject)
    \/ RegExpI(q, lesson.location)
    \/ RegexOnNumber(q, lesson.price)
    \/ RegexOnNumber(q, lesson.space)

\* An order that always takes the id 1.
NewOrderSameId(r, q, id, total) ==
    [_id |-> 1, owner |-> r, name |-> q.name, phone |-> q.phone,
     lessons |-> q.items, totalAmount |-> total, status |-> "confirmed"]

NewOrder(r, q, id, total) ==
    [_id |-> id, owner |-> r, name |-> q.name, phone |-> q.phone,
     lessons |-> q.items, totalAmount |-> total, status |-> "confirmed"]

-----------------------------------------------------------------------------
(* State *)

\* where: the subject and location a capacity message names; results: the
\* lessons or orders in the body of a 200 response (the lesson of an update
\* response, the list of a read, the matches of a search); count: the count of
\* a search response; scanned: history, the search handler has read the
\* catalog; snap, resv: history.
IdleReq ==
    [op |-> "none", name |-> Empty, phone |-> Empty, items |-> <<>>, id |-> "",
     patch |-> NoPatch, term |-> Empty, pc |-> "idle", k |-> 0, total |-> 0,
     status |-> 0, error |-> "", arg |-> "", where |-> <<>>,
     results |-> <<>>, count |-> 0, scanned |-> FALSE,
     snap |-> <<>>, resv |-> 0]

Catalog(sp) ==
    [i \in 1..Len(CatalogIds) |->
        [_id |-> CatalogIds[i], subject |-> SeedSubject[i],
         location |-> SeedLocation[i], price |-> SeedPrice[i], space |-> sp[i]]]

\* The catalog is whatever the store holds when the server starts (seedDatabase
\* inserts only into an empty collection) and PUT can set any space >= 0.
Init ==
    /\ variant \in Variants
    /\ \E sp \in [1..Len(CatalogIds) -> 0..MaxSpace] : lessons = Catalog(sp)
    /\ orders = <<>>
    /\ nextOrderId = 1
    /\ req = [r \in Reqs |-> IdleReq]
    /\ fails = 0
    /\ catalog0 = lessons

InFlight(r) == req[r].pc \notin {"idle", "done"}

Received(r, b) ==
    [IdleReq EXCEPT !.op = b.op, !.name = b.name, !.phone = b.phone,
                    !.items = b.items, !.id = b.id, !.patch = b.patch,
                    !.term = b.term, !.pc = "recv", !.snap = lessons]

\* The response is sent and the handler ends.
Respond(q, status, error, arg) ==
    [q EXCEPT !.pc = "done", !.status = status, !.error = error, !.arg = arg]

\* The response to a booking that failed the check c.
Refuse(q, c) ==
    [Respond(q, IF c.res = "notfound" THEN 404 ELSE 400, c.res, c.arg)
        EXCEPT !.where = c.where]

\* res.json(lessons), res.json(orders), res.json({ message, lesson })
Listed(q, xs) == [Respond(q, 200, "", "") EXCEPT !.results = xs]

\* res.json({ query: q, results: results, count: results.length })
Found(q, results) ==
    [Respond(q, 200, "", "")
        EXCEPT !.results = results, !.count = Len(results), !.scanned = TRUE]

-----------------------------------------------------------------------------
(* Requests arrive *)

\* One request, of any shape, against the catalog the server started with.
Arrive ==
    /\ \A s \in Reqs : req[s].pc = "idle"
    /\ \E b \in Bodies : req' = [req EXCEPT ![1] = Received(1, b)]
    /\ UNCHANGED <<variant, lessons, orders, nextOrderId, fails, catalog0>>

\* Clients that do not wait for one another.
ArriveConc(r) ==
    /\ req[r].pc = "idle"
    /\ \A s \in Reqs : s < r => req[s].pc # "idle"
    /\ \E b \in ConcBodies : req' = [req EXCEPT ![r] = Received(r, b)]
    /\ UNCHANGED <<variant, lessons, orders, nextOrderId, fails, catalog0>>

\* Clients of the in-memory server that do not wait for one another.
ArriveSimple(r) ==
    /\ req[r].pc = "idle"
    /\ \A s \in Reqs : s < r => req[s].pc # "idle"
    /\ \E b \in SimpleBodies : req' = [req EXCEPT ![r] = Received(r, b)]
    /\ UNCHANGED <<variant, lessons, orders, nextOrderId, fails, catalog0>>

-----------------------------------------------------------------------------
(* server-simple.js: each handler is one step *)

\* POST /orders whose availability loop sees the catalog as it was when the
\* request arrived.
SimplePostOrdersStale(r) ==
    LET q == req[r]
        bad == ValidateOrder(variant, q)
        c == CheckFrom(q.snap, q.items, 1, 0)
    IN
    /\ variant = "simple" /\ q.pc = "recv" /\ q.op = "order"
    /\ IF bad # ""
       THEN /\ req' = [req EXCEPT ![r] = Respond(q, 400, bad, "")]
            /\ UNCHANGED <<lessons, orders, nextOrderId>>
       ELSE IF c.res # "ok"
       THEN /\ req' = [req EXCEPT ![r] = Refuse(q, c)]
            /\ UNCHANGED <<lessons, orders, nextOrderId>>
       ELSE /\ orders' = Push(orders, NewOrder(r, q, nextOrderId, c.total))
            /\ nextOrderId' = nextOrderId + 1
            /\ lessons' = DecFrom(lessons, q.items, 1)
            /\ req' = [req EXCEPT ![r] =
                Respond([q EXCEPT !.total = c.total,
                                  !.resv = ResvFrom(lessons, q.items, 1)],
                        201, "", "")]
    /\ UNCHANGED <<variant, fails, catalog0>>

SimplePostOrders(r) ==
    LET q == req[r]
        bad == ValidateOrder(variant, q)
        c == CheckFrom(lessons, q.items, 1, 0)
    IN
    /\ variant = "simple" /\ q.pc = "recv" /\ q.op = "order"
    /\ IF bad # ""
       THEN /\ req' = [req EXCEPT ![r] = Respond(q, 400, bad, "")]
            /\ UNCHANGED <<lessons, orders, nextOrderId>>
       ELSE IF c.res # "ok"
       THEN /\ req' = [req EXCEPT ![r] = Refuse(q, c)]
            /\ UNCHANGED <<lessons, orders, nextOrderId>>
       ELSE /\ orders' = Push(orders, NewOrder(r, q, nextOrderId, c.total))
            /\ nextOrderId' = nextOrderId + 1
            /\ lessons' = DecFrom(lessons, q.items, 1)
            /\ req' = [req EXCEPT ![r] =
                Respond([q EXCEPT !.total = c.total,
                                  !.resv = ResvFrom(lessons, q.items, 1)],
                        201, "", "")]
    /\ UNCHANGED <<variant, fails, catalog0>>

SimplePutLesson(r) ==
    LET q == req[r]
        idx == FindIndex(lessons, q.id)
        bad == ValidatePatch(q.patch)
    IN
    /\ variant = "simple" /\ q.pc = "recv" /\ q.op = "update"
    /\ IF idx = 0
       THEN /\ req' = [req EXCEPT ![r] = Respond(q, 404, "notfound", q.id)]
            /\ UNCHANGED lessons
       ELSE IF bad # ""
       THEN /\ req' = [req EXCEPT ![r] = Respond(q, 400, bad, "")]
            /\ UNCHANGED lessons
       ELSE /\ lessons' = [lessons EXCEPT ![idx] = Assign(@, q.patch)]
            /\ req' = [req EXCEPT ![r] = Listed(q, <<Assign(lessons[idx], q.patch)>>)]
    /\ UNCHANGED <<variant, orders, nextOrderId, fails, catalog0>>

SimpleSearch(r) ==
    LET q == req[r] IN
    /\ variant = "simple" /\ q.pc = "recv" /\ q.op = "search"
    /\ req' = [req EXCEPT ![r] =
            IF Missing(q.term) THEN Respond(q, 400, "required", "")
            ELSE Found(q, SelectSeq(lessons,
                        LAMBDA l : SimpleMatches(l, ToLowerCase(q.term))))]
    /\ UNCHANGED <<variant, lessons, orders, nextOrderId, fails, catalog0>>

SimpleGetLessons(r) ==
    LET q == req[r] IN
    /\ variant = "simple" /\ q.pc = "recv" /\ q.op = "lessons"
    /\ req' = [req EXCEPT ![r] = Listed(q, lessons)]
    /\ UNCHANGED <<variant, lessons, orders, nextOrderId, fails, catalog0>>

SimpleGetOrders(r) ==
    LET q == req[r] IN
    /\ variant = "simple" /\ q.pc = "recv" /\ q.op = "orders"
    /\ req' = [req EXCEPT ![r] = Listed(q, orders)]
    /\ UNCHANGED <<variant, lessons, orders, nextOrderId, fails, catalog0>>

-----------------------------------------------------------------------------
(* server.js: a handler runs up to its next await; each store call is a step *)

Mongo == variant \in {"mongo1", "mongo2"}

\* POST /orders from its first line to the first await.
MongoOrderStart(r) ==
    LET q == req[r]
        bad == ValidateOrder(variant, q)
    IN
    /\ Mongo /\ q.pc = "recv" /\ q.op = "order"
    /\ req' = [req EXCEPT ![r] =
            IF bad # "" THEN Respond(q, 400, bad, "")
            ELSE [q EXCEPT !.pc = IF Len(q.items) = 0 THEN "insert" ELSE "find",
                           !.k = 1, !.total = 0]]
    /\ UNCHANGED <<variant, lessons, orders, nextOrderId, fails, catalog0>>

\* await lessonsCollection.findOne({ _id: new ObjectId(lessonOrder.lessonId) })
\* and the two checks behind it. new ObjectId throws on a malformed id: the
\* catch block answers 500.
MongoFind(r) ==
    LET q == req[r]
        item == q.items[q.k]
        c == CheckItem(lessons, item)
    IN
    /\ Mongo /\ q.pc = "find"
    /\ req' = [req EXCEPT ![r] =
            IF ~ObjectIdIsValid(item.lessonId) THEN Respond(q, 500, "failed", "")
            ELSE IF c.res # "ok" THEN Refuse(q, c)
            ELSE [q EXCEPT !.total = @ + c.amount,
                           !.k = @ + 1,
                           !.pc = IF q.k = Len(q.items) THEN "insert" ELSE "find"]]
    /\ UNCHANGED <<variant, lessons, orders, nextOrderId, fails, catalog0>>

\* await ordersCollection.insertOne(order); the store assigns the _id.
MongoInsert(r) ==
    LET q == req[r] IN
    /\ Mongo /\ q.pc = "insert"
    /\ orders' = Push(orders, NewOrder(r, q, Len(orders) + 1, q.total))
    /\ req' = [req EXCEPT ![r] =
            IF Len(q.items) = 0 THEN Respond(q, 201, "", "")
            ELSE [q EXCEPT !.pc = "update", !.k = 1]]
    /\ UNCHANGED <<variant, lessons, nextOrderId, fails, catalog0>>

\* await lessonsCollection.updateOne({_id}, { $inc: { space: -quantity } })
MongoUpdate(r) ==
    LET q == req[r]
        item == q.items[q.k]
        q2 == [q EXCEPT !.resv = @ + PriceNow(lessons, item)]
    IN
    /\ Mongo /\ q.pc = "update"
    /\ lessons' = Decrement(lessons, item)
    /\ req' = [req EXCEPT ![r] =
            IF q.k = Len(q.items) THEN Respond(q2, 201, "", "")
            ELSE [q2 EXCEPT !.k = @ + 1]]
    /\ UNCHANGED <<variant, orders, nextOrderId, fails, catalog0>>

\* PUT /lessons/:id from its first line to the first await: the id's form,
\* delete updates._id, the numeric checks. The first copy of server.js registers
\* no such route: express answers 404.
MongoPutStart(r) ==
    LET q == req[r]
        bad == ValidatePatch(q.patch)
    IN
    /\ Mongo /\ q.pc = "recv" /\ q.op = "update"
    /\ req' = [req EXCEPT ![r] =
            IF variant = "mongo1" THEN Respond(q, 404, "noroute", "")
            ELSE IF ~ObjectIdIsValid(q.id) THEN Respond(q, 400, "badid", "")
            ELSE IF bad # "" THEN Respond(q, 400, bad, "")
            ELSE [q EXCEPT !.pc = "set", !.patch = DeleteId(q.patch)]]
    /\ UNCHANGED <<variant, lessons, orders, nextOrderId, fails, catalog0>>

\* await lessonsCollection.updateOne({_id}, { $set: updates }); matchedCount
MongoSet(r) ==
    LET q == req[r]
        idx == FindIndex(lessons, q.id)
    IN
    /\ Mongo /\ q.pc = "set"
    /\ IF idx = 0
       THEN /\ req' = [req EXCEPT ![r] = Respond(q, 404, "notfound", q.id)]
            /\ UNCHANGED lessons
       ELSE /\ lessons' = [lessons EXCEPT ![idx] = Assign(@, q.patch)]
            /\ req' = [req EXCEPT ![r] = [q EXCEPT !.pc = "refetch"]]
    /\ UNCHANGED <<variant, orders, nextOrderId, fails, catalog0>>

\* const updatedLesson = await lessonsCollection.findOne({_id}); res.json
MongoRefetch(r) ==
    LET q == req[r]
        idx == FindIndex(lessons, q.id)
    IN
    /\ Mongo /\ q.pc = "refetch"
    /\ req' = [req EXCEPT ![r] =
            Listed(q, IF idx = 0 THEN <<>> ELSE <<lessons[idx]>>)]
    /\ UNCHANGED <<variant, lessons, orders, nextOrderId, fails, catalog0>>

\* GET /search from its first line to the first await.
MongoSearchStart(r) ==
    LET q == req[r] IN
    /\ Mongo /\ q.pc = "recv" /\ q.op = "search"
    /\ req' = [req EXCEPT ![r] =
            IF Missing(q.term) THEN Respond(q, 400, "required", "")
            ELSE [q EXCEPT !.pc = "query"]]
    /\ UNCHANGED <<variant, lessons, orders, nextOrderId, fails, catalog0>>

\* await lessonsCollection.find({ $or: [...] }).toArray(); res.json
MongoSearch(r) ==
    LET q == req[r] IN
    /\ Mongo /\ q.pc = "query"
    /\ req' = [req EXCEPT ![r] =
            Found(q, SelectSeq(lessons, LAMBDA l : MongoMatches(l, q.term)))]
    /\ UNCHANGED <<variant, lessons, orders, nextOrderId, fails, catalog0>>

\* GET /lessons up to its await; server.js registers no GET /orders route:
\* express answers 404.
MongoReadStart(r) ==
    LET q == req[r] IN
    /\ Mongo /\ q.pc = "recv" /\ q.op \in Reads
    /\ req' = [req EXCEPT ![r] =
            IF q.op = "orders" THEN Respond(q, 404, "noroute", "")
            ELSE [q EXCEPT !.pc = "list"]]
    /\ UNCHANGED <<variant, lessons, orders, nextOrderId, fails, catalog0>>

\* const lessons = await lessonsCollection.find({}).toArray(); res.json(lessons)
MongoList(r) ==
    LET q == req[r] IN
    /\ Mongo /\ q.pc = "list"
    /\ req' = [req EXCEPT ![r] = Listed(q, lessons)]
    /\ UNCHANGED <<variant, lessons, orders, nextOrderId, fails, catalog0>>

\* A store call rejects (connection lost, write error): the handler's catch
\* block answers 500 and nothing else runs.
StoreFail(r) ==
    LET q == req[r] IN
    /\ Mongo
    /\ q.pc \in {"find", "insert", "update", "set", "refetch", "query", "list"}
    /\ fails < MaxFail
    /\ fails' = fails + 1
    /\ req' = [req EXCEPT ![r] = Respond(q, 500, "failed", "")]
    /\ UNCHANGED <<variant, lessons, orders, nextOrderId, catalog0>>

-----------------------------------------------------------------------------
(* Specifications *)

Handle(r) ==
    \/ SimplePostOrders(r)
    \/ SimplePutLesson(r)
    \/ SimpleSearch(r)
    \/ SimpleGetLessons(r)
    \/ SimpleGetOrders(r)
    \/ MongoOrderStart(r)
    \/ MongoFind(r)
    \/ MongoInsert(r)
    \/ MongoUpdate(r)
    \/ MongoPutStart(r)
    \/ MongoSet(r)
    \/ MongoRefetch(r)
    \/ MongoSearchStart(r)
    \/ MongoSearch(r)
    \/ MongoReadStart(r)
    \/ MongoList(r)
    \/ StoreFail(r)

\* One request of any shape, handled to its response.
Next == Arrive \/ \E r \in Reqs : Handle(r)

Spec == Init /\ [][Next]_vars

\* Several well-formed requests in flight together.
NextConc == \E r \in Reqs : ArriveConc(r) \/ Handle(r)

SpecConc == Init /\ [][NextConc]_vars

\* server-simple.js alone: bookings and updates sent together.
InitSimple == Init /\ variant = "simple"

NextSimple ==
    \E r \in Reqs : ArriveSimple(r) \/ SimplePostOrders(r) \/ SimplePutLesson(r)

SpecSimple == InitSimple /\ [][NextSimple]_vars

-----------------------------------------------------------------------------
(* Vocabulary of the properties *)

IsOrder(r) == req[r].op = "order"
Done(r) == req[r].pc = "done"
Succeeded(r) == IsOrder(r) /\ Done(r) /\ req[r].status = 201

\* Request r's handler sends its response in this step.
Completes(r) == req[r].pc # "done" /\ req'[r].pc = "done"

\* The orders in ledger `os` that request r created.
OrdersOf(os, r) == {i \in 1..Len(os) : os[i].owner = r}

\* In catalog ls the item names a lesson that has / has not the space asked for.
Known(ls, id) == \E i \in 1..Len(ls) : ls[i]._id = id
Fits(ls, item) ==
    \E i \in 1..Len(ls) : ls[i]._id = item.lessonId /\ ls[i].space >= item.quantity
OverAsks(ls, item) ==
    \E i \in 1..Len(ls) : ls[i]._id = item.lessonId /\ ls[i].space < item.quantity

SpaceOf(ls, id) == (CHOOSE l \in {ls[i] : i \in 1..Len(ls)} : l._id = id).space

\* The quantity of lesson id that the line items ask for, from item k on.
RECURSIVE QtyOf(_, _, _)
QtyOf(items, id, k) ==
    IF k > Len(items) THEN 0
    ELSE (IF items[k].lessonId = id THEN items[k].quantity ELSE 0)
         + QtyOf(items, id, k + 1)

\* The quantity of lesson id granted to the successful bookings among 1..n.
RECURSIVE Granted(_, _)
Granted(n, id) ==
    IF n = 0 THEN 0
    ELSE (IF Succeeded(n) THEN QtyOf(req[n].items, id, 1) ELSE 0) + Granted(n - 1, id)

-----------------------------------------------------------------------------
(* Properties *)

\* C1: in every reachable state every lesson has space >= 0.
C1_SpaceNeverNegative ==
    \A i \in 1..Len(lessons) : lessons[i].space >= 0

\* C2: when only bookings run, each for one line item, the quantities granted
\* to the successful bookings of a lesson never add up to more than the space
\* the lesson started with, and its space never goes below zero.
C2_NoOversell ==
    (\A r \in Reqs : req[r].op # "update" /\ Len(req[r].items) <= 1)
    => \A i \in 1..Len(catalog0) :
          /\ Granted(NReq, catalog0[i]._id) <= catalog0[i].space
          /\ lessons[i].space >= 0

\* C3: lesson L1 has price 100 and space 1; two requests, each booking one
\* unit of L1, are in flight together and no store call fails. When both have
\* been answered exactly one order exists, its totalAmount is 100, one request
\* got 201 and the other the capacity error (400), and L1 has space 0.
C3_LastUnitRace ==
    ( /\ catalog0[1]._id = "L1" /\ catalog0[1].price = 100 /\ catalog0[1].space = 1
      /\ fails = 0
      /\ \A r \in Reqs :
            IF r <= 2
            THEN /\ Done(r) /\ IsOrder(r) /\ req[r].items = OneItem
                 /\ req[r].name = GoodName /\ req[r].phone = GoodPhone
            ELSE req[r].pc = "idle" )
    => /\ Len(orders) = 1
       /\ orders[1].totalAmount = 100
       /\ \E r \in Reqs : req[r].status = 201
       /\ \E r \in Reqs : req[r].status = 400 /\ req[r].error = "capacity"
       /\ SpaceOf(lessons, "L1") = 0

\* Line item i of booking r has passed its capacity check and its decrement
\* has not been applied yet.
InWindow(r, i) ==
    /\ IsOrder(r)
    /\ i \in 1..Len(req[r].items)
    /\ \/ req[r].pc = "find" /\ i < req[r].k
       \/ req[r].pc = "insert"
       \/ req[r].pc = "update" /\ i >= req[r].k

\* C4: between a booking's capacity check of a lesson and its decrement of
\* that lesson, no step of another request changes that lesson's space.
C4_CheckAndDecrementAtomic ==
    [][\A r \in Reqs : \A i \in 1..MaxItems :
          (InWindow(r, i) /\ req'[r] = req[r]
              /\ Known(lessons, req[r].items[i].lessonId))
          => SpaceOf(lessons', req[r].items[i].lessonId)
               = SpaceOf(lessons, req[r].items[i].lessonId)]_vars

\* Some line item of q asks for more than its lesson had when q arrived.
Exceeds(q) == \E i \in 1..Len(q.items) : OverAsks(q.snap, q.items[i])

\* Name and phone pass, and the first line item of q that fails a check fails
\* the capacity check.
CapacityFirst(q) ==
    /\ NameOK(q.name) /\ PhoneOK(q.phone)
    /\ \E i \in 1..Len(q.items) :
          /\ OverAsks(q.snap, q.items[i])
          /\ \A j \in 1..(i - 1) : Fits(q.snap, q.items[j])

SameSpaces(ls1, ls2) ==
    /\ Len(ls1) = Len(ls2)
    /\ \A i \in 1..Len(ls1) : ls1[i]._id = ls2[i]._id /\ ls1[i].space = ls2[i].space

\* C5: a booking with a line item that asks for more than its lesson's space
\* is rejected, creates no order and leaves every lesson's space as it was
\* before the request; the rejection is the capacity error (400) when that
\* check is the first to fail and no store call fails.
C5_OverAskRejectedCleanly ==
    [][\A r \in Reqs :
          (IsOrder(r) /\ Completes(r) /\ Exceeds(req[r]))
          => /\ req'[r].status # 201
             /\ OrdersOf(orders', r) = {}
             /\ SameSpaces(lessons', req[r].snap)
             /\ (CapacityFirst(req[r]) /\ fails' = fails)
                  => (req'[r].status = 400 /\ req'[r].error = "capacity")]_vars

\* A two-item booking was refused for its second item after its first item
\* had passed the check; nothing was written.
C5_Witness ==
    \E r \in Reqs :
        /\ IsOrder(r) /\ Done(r)
        /\ req[r].status = 400 /\ req[r].error = "capacity"
        /\ Len(req[r].items) = 2
        /\ req[r].items[1].quantity > 0
        /\ req[r].items[1].lessonId # req[r].items[2].lessonId
        /\ Fits(req[r].snap, req[r].items[1])
        /\ OverAsks(req[r].snap, req[r].items[2])
        /\ req[r].arg = req[r].items[2].lessonId
        /\ SameSpaces(lessons, req[r].snap)
        /\ OrdersOf(orders, r) = {}

\* C6: a booking that ends in an error of any kind leaves no order of its own
\* in the ledger and every lesson's space as it was before the request.
C6_ErrorLeavesNoTrace ==
    [][\A r \in Reqs :
          (IsOrder(r) /\ Completes(r) /\ req'[r].status # 201)
          => /\ OrdersOf(orders', r) = {}
             /\ SameSpaces(lessons', req[r].snap)]_vars

\* C7: the totalAmount of the order of a completed booking is the sum of
\* quantity times the price each lesson had when its space was decremented.
C7_TotalAtReservationPrice ==
    \A r \in Reqs :
        Succeeded(r) => \A i \in OrdersOf(orders, r) : orders[i].totalAmount = req[r].resv

\* C8: every order in the ledger has at least one line item, every quantity
\* positive, and a totalAmount >= 0.
C8_OrdersWellFormed ==
    \A i \in 1..Len(orders) :
        /\ Len(orders[i].lessons) >= 1
        /\ \A j \in 1..Len(orders[i].lessons) : orders[i].lessons[j].quantity > 0
        /\ orders[i].totalAmount >= 0

\* C9: a booking whose name or phone does not match its pattern is answered
\* 400 straight away: its handler never reaches a store call and no order of
\* it exists.
C9_BadContactRejected ==
    \A r \in Reqs :
        (IsOrder(r) /\ (~NameOK(req[r].name) \/ ~PhoneOK(req[r].phone)))
        => /\ req[r].pc \in {"recv", "done"}
           /\ Done(r) => req[r].status = 400
           /\ OrdersOf(orders, r) = {}

\* C10: a booking whose first failing line item names an id that is not in
\* the catalog, whatever its form, is answered 404 naming that id, creates no
\* order and changes no space (no store call failing).
C10_AbsentLessonNotFound ==
    [][\A r \in Reqs : \A i \in 1..MaxItems :
          ( /\ IsOrder(r) /\ Completes(r) /\ fails' = fails
            /\ NameOK(req[r].name) /\ PhoneOK(req[r].phone)
            /\ i <= Len(req[r].items)
            /\ ~Known(req[r].snap, req[r].items[i].lessonId)
            /\ \A j \in 1..(i - 1) : Fits(req[r].snap, req[r].items[j]) )
          => /\ req'[r].status = 404
             /\ req'[r].error = "notfound"
             /\ req'[r].arg = req[r].items[i].lessonId
             /\ OrdersOf(orders', r) = {}
             /\ SameSpaces(lessons', req[r].snap)]_vars

\* C11: a booking answered 201 has created exactly one order, with status
\* 'confirmed' and the request's line items; every lesson is as it was before
\* the request except that its space is lower by the quantity the request
\* orders of it (price, subject, location and id unchanged, and a lesson the
\* request does not name unchanged altogether).
C11_SuccessFrame ==
    [][\A r \in Reqs :
          (IsOrder(r) /\ Completes(r) /\ req'[r].status = 201)
          => /\ Cardinality(OrdersOf(orders', r)) = 1
             /\ \A i \in OrdersOf(orders', r) :
                   /\ orders'[i].status = "confirmed"
                   /\ orders'[i].lessons = req[r].items
             /\ Len(lessons') = Len(req[r].snap)
             /\ \A i \in 1..Len(lessons') :
                   lessons'[i] =
                     [req[r].snap[i] EXCEPT
                        !.space = @ - QtyOf(req[r].items, req[r].snap[i]._id, 1)]]_vars

\* A booking of two units of L1 and one unit of L2 was answered 201.
C11_Witness ==
    \E r \in Reqs :
        /\ Succeeded(r)
        /\ req[r].items = << [lessonId |-> "L1", quantity |-> 2],
                             [lessonId |-> "L2", quantity |-> 1] >>
        /\ Cardinality(OrdersOf(orders, r)) = 1
        /\ lessons[1].space = req[r].snap[1].space - 2
        /\ lessons[2].space = req[r].snap[2].space - 1

\* C12: no step removes an order from the ledger or changes any field of an
\* order that is in it: the ledger only grows at its end.
C12_LedgerAppendOnly ==
    [][/\ Len(orders') >= Len(orders)
       /\ \A i \in 1..Len(orders) : orders'[i] = orders[i]]_vars

\* One unit of L1 was booked at price 100; an update has since set the price
\* of L1 to 90, and the order still says 100.
C12_Witness ==
    \E r, u \in Reqs :
        /\ Succeeded(r) /\ req[r].items = OneItem
        /\ \E i \in OrdersOf(orders, r) : orders[i].totalAmount = 100
        /\ req[u].op = "update" /\ Done(u) /\ req[u].status = 200
        /\ req[u].id = "L1" /\ req[u].patch = [price |-> 90]
        /\ lessons[1].price = 90

\* C13: the catalog always holds the lessons it started with, each under the
\* id it started with, and no two lessons share an id.
C13_LessonIdentityStable ==
    /\ Len(lessons) = Len(catalog0)
    /\ \A i \in 1..Len(lessons) : lessons[i]._id = catalog0[i]._id
    /\ \A i, j \in 1..Len(lessons) : i # j => lessons[i]._id # lessons[j]._id

IsUpdate(r) == req[r].op = "update"

\* The id has the form of an id of the store and names no lesson of ls.
Unknown(ls, id) == id # MalformedId /\ ~Known(ls, id)

\* A price or space of the patch is negative or is not a number.
BadNumber(v) == v \in NonNumbers \/ v < 0
Invalid(patch) ==
    \/ "price" \in DOMAIN patch /\ BadNumber(patch.price)
    \/ "space" \in DOMAIN patch /\ BadNumber(patch.space)

\* C14: an update of an id that names no lesson is answered 404 and changes
\* no lesson and no order (no store call failing).
C14_UpdateUnknownNotFound ==
    [][\A r \in Reqs :
          ( /\ IsUpdate(r) /\ Completes(r) /\ fails' = fails
            /\ Unknown(req[r].snap, req[r].id) )
          => /\ req'[r].status = 404
             /\ lessons' = req[r].snap
             /\ orders' = orders]_vars

\* C15: where the server has an update handler, an update of a lesson of the
\* catalog whose patch carries a negative or non-numeric price or space is
\* answered 400 and changes no field of any lesson (no store call failing);
\* and no step of an update makes a price or a space negative.
C15_InvalidPatchRejected ==
    [][\A r \in Reqs :
          /\ ( /\ IsUpdate(r) /\ Completes(r) /\ fails' = fails
               /\ variant # "mongo1"
               /\ Known(req[r].snap, req[r].id)
               /\ Invalid(req[r].patch) )
             => /\ req'[r].status = 400
                /\ lessons' = req[r].snap
          /\ (IsUpdate(r) /\ req'[r] # req[r])
             => \A i \in 1..Len(lessons') :
                   /\ lessons'[i].price < 0 => lessons[i].price < 0
                   /\ lessons'[i].space < 0 => lessons[i].space < 0]_vars

IsSearch(r) == req[r].op = "search"

\* Text t occurs in text s.
Occurs(t, s) == \E i \in 1..(Len(s) - Len(t) + 1) : SubSeq(s, i, i + Len(t) - 1) = t

\* The lesson matches the term: the term, case ignored, occurs in its subject,
\* in its location, or in the decimal string of its price or of its space.
Specified(l, term) ==
    \/ Occurs(ToLowerCase(term), ToLowerCase(l.subject))
    \/ Occurs(ToLowerCase(term), ToLowerCase(l.location))
    \/ Occurs(ToLowerCase(term), NumToString(l.price))
    \/ Occurs(ToLowerCase(term), NumToString(l.space))

Range(seq) == {seq[i] : i \in 1..Len(seq)}

\* C16: a search with a non-empty term is answered 200 with exactly the
\* lessons of the catalog that match the term, and with their number as count
\* (no store call failing), in the in-memory and in the document-store server.
C16_SearchResult ==
    [][\A r \in Reqs :
          ( /\ IsSearch(r) /\ Completes(r) /\ fails' = fails
            /\ req[r].term # Empty )
          => /\ req'[r].status = 200
             /\ Range(req'[r].results)
                  = {l \in Range(req[r].snap) : Specified(l, req[r].term)}
             /\ req'[r].count = Cardinality(Range(req'[r].results))]_vars

\* C17: a search without a term, or with the empty term, is answered 400 by
\* the handler's first check: no result list is returned and the catalog has
\* not been read.
C17_EmptyTermRejected ==
    [][\A r \in Reqs :
          (IsSearch(r) /\ Completes(r) /\ req[r].term = Empty)
          => /\ req'[r].status = 400
             /\ req'[r].error = "required"
             /\ req[r].pc = "recv"
             /\ ~req'[r].scanned
             /\ req'[r].results = <<>>]_vars

\* A search with the empty term has been answered 400.
C17_Witness ==
    \E r \in Reqs :
        /\ IsSearch(r) /\ Done(r) /\ req[r].term = Empty
        /\ req[r].status = 400 /\ ~req[r].scanned

\* C18: whenever an order is in the ledger, every lesson's space is already
\* lower, by the quantity the order asks of it, than before the order's request.
C18_OrderAfterReservation ==
    \A r \in Reqs :
        OrdersOf(orders, r) # {}
        => /\ Len(lessons) = Len(req[r].snap)
           /\ \A i \in 1..Len(lessons) :
                 lessons[i].space
                   = req[r].snap[i].space - QtyOf(req[r].items, lessons[i]._id, 1)

\* Line item i of q fails a check against the catalog q arrived at.
Fails(q, i) ==
    ~Known(q.snap, q.items[i].lessonId) \/ OverAsks(q.snap, q.items[i])

\* The subject and location of the lesson with this id.
Named(ls, id) ==
    LET l == CHOOSE l \in Range(ls) : l._id = id IN <<l.subject, l.location>>

\* C19: a booking with at least two failing line items is answered with the
\* error of the failing item of lowest index: 404 naming its id when that id
\* names no lesson, the capacity error (400) naming the lesson's subject and
\* location otherwise (name and phone passing, no store call failing).
C19_FirstFailureDecides ==
    [][\A r \in Reqs : \A i \in 1..MaxItems :
          ( /\ IsOrder(r) /\ Completes(r) /\ fails' = fails
            /\ NameOK(req[r].name) /\ PhoneOK(req[r].phone)
            /\ i <= Len(req[r].items)
            /\ Fails(req[r], i)
            /\ \A j \in 1..(i - 1) : Fits(req[r].snap, req[r].items[j])
            /\ \E j \in (i + 1)..Len(req[r].items) : Fails(req[r], j) )
          => IF ~Known(req[r].snap, req[r].items[i].lessonId)
             THEN /\ req'[r].status = 404
                  /\ req'[r].error = "notfound"
                  /\ req'[r].arg = req[r].items[i].lessonId
             ELSE /\ req'[r].status = 400
                  /\ req'[r].error = "capacity"
                  /\ req'[r].where = Named(req[r].snap, req[r].items[i].lessonId)]_vars

\* C20: an update that names no lesson and carries a negative or non-numeric
\* price or space is answered 404, not 400 (no store call failing).
C20_LookupBeforeValidation ==
    [][\A r \in Reqs :
          ( /\ IsUpdate(r) /\ Completes(r) /\ fails' = fails
            /\ Unknown(req[r].snap, req[r].id)
            /\ Invalid(req[r].patch) )
          => req'[r].status = 404]_vars

\* The fields a patch sets: all it names but the id, which no update changes.
Fields(patch) == DOMAIN patch \ {"_id"}

\* C21: an update answered 200 leaves its lesson with the patch's values in
\* the fields the patch names and its former values in all other fields, and
\* returns the lesson as it is now stored; every other lesson and the ledger
\* are as before.
C21_UpdateFrame ==
    [][\A r \in Reqs :
          (IsUpdate(r) /\ Completes(r) /\ req'[r].status = 200)
          => /\ Len(lessons') = Len(req[r].snap)
             /\ orders' = orders
             /\ \E i \in 1..Len(req[r].snap) :
                   /\ req[r].snap[i]._id = req[r].id
                   /\ DOMAIN lessons'[i]
                        = DOMAIN req[r].snap[i] \cup Fields(req[r].patch)
                   /\ \A f \in DOMAIN lessons'[i] :
                         lessons'[i][f] = IF f \in Fields(req[r].patch)
                                          THEN req[r].patch[f]
                                          ELSE req[r].snap[i][f]
                   /\ \A j \in 1..Len(lessons') :
                         j # i => lessons'[j] = req[r].snap[j]
                   /\ req'[r].results = <<lessons'[i]>>]_vars

IsRead(r) == req[r].op \in {"lessons", "orders", "search"}

\* C22: no step of a GET /lessons, GET /search or GET /orders request changes
\* the lessons, the orders or the order id counter; GET /lessons answers with
\* every lesson and GET /orders answers with every order of the ledger (no
\* store call failing).
C22_ReadsChangeNothing ==
    [][\A r \in Reqs :
          (IsRead(r) /\ req'[r] # req[r])
          => /\ lessons' = lessons
             /\ orders' = orders
             /\ nextOrderId' = nextOrderId
             /\ (Completes(r) /\ fails' = fails /\ req[r].op = "lessons")
                  => (req'[r].status = 200 /\ req'[r].results = lessons)
             /\ (Completes(r) /\ fails' = fails /\ req[r].op = "orders")
                  => (req'[r].status = 200 /\ req'[r].results = orders)]_vars

\* The quantity of lesson id over the line items of the orders n.. of ledger os.
RECURSIVE Ordered(_, _, _)
Ordered(os, id, n) ==
    IF n > Len(os) THEN 0
    ELSE QtyOf(os[n].lessons, id, 1) + Ordered(os, id, n + 1)

\* C23: when no update has been requested and no booking is in flight, each
\* lesson's starting space minus its present space is the quantity the orders
\* of the ledger hold of it.
C23_CapacityConserved ==
    ( /\ \A r \in Reqs : ~IsUpdate(r)
      /\ \A r \in Reqs : IsOrder(r) => ~InFlight(r) )
    => \A i \in 1..Len(catalog0) :
          catalog0[i].space - lessons[i].space
            = Ordered(orders, catalog0[i]._id, 1)

\* C24: no step of a booking request, accepted or rejected, leaves a lesson
\* with more space than it had before the step.
C24_BookingNeverAddsSpace ==
    [][\A r \in Reqs :
          (IsOrder(r) /\ req'[r] # req[r])
          => /\ Len(lessons') = Len(lessons)
             /\ \A i \in 1..Len(lessons) : lessons'[i].space <= lessons[i].space]_vars

\* What a response says: status, error, the id or lesson named, the body.
Answer(q) == <<q.status, q.error, q.arg, q.where, q.results>>

\* The in-memory server before any request.
Fresh ==
    [ls |-> catalog0, os |-> <<>>, next |-> 1, ans |-> [r \in Reqs |-> <<>>]]

\* The in-memory server st after it has handled request r, alone, from its
\* first line to its response.
Alone(st, r) ==
    LET q == req[r]
        bad == ValidateOrder("simple", q)
        c == CheckFrom(st.ls, q.items, 1, 0)
        idx == FindIndex(st.ls, q.id)
        wrong == ValidatePatch(q.patch)
    IN
    IF q.op = "order"
    THEN IF bad # ""
         THEN [st EXCEPT !.ans[r] = <<400, bad, "", <<>>, <<>> >>]
         ELSE IF c.res # "ok"
         THEN [st EXCEPT !.ans[r] =
                 <<IF c.res = "notfound" THEN 404 ELSE 400, c.res, c.arg,
                   c.where, <<>> >>]
         ELSE [st EXCEPT !.os = Push(@, NewOrder(r, q, st.next, c.total)),
                         !.next = @ + 1,
                         !.ls = DecFrom(@, q.items, 1),
                         !.ans[r] = <<201, "", "", <<>>, <<>> >>]
    ELSE IF idx = 0
         THEN [st EXCEPT !.ans[r] = <<404, "notfound", q.id, <<>>, <<>> >>]
         ELSE IF wrong # ""
         THEN [st EXCEPT !.ans[r] = <<400, wrong, "", <<>>, <<>> >>]
         ELSE [st EXCEPT !.ls[idx] = Assign(@, q.patch),
                         !.ans[r] = <<200, "", "", <<>>,
                                      <<Assign(st.ls[idx], q.patch)>> >>]

\* The server after the requests order[k], order[k+1], ... one after another.
RECURSIVE InTurn(_, _, _)
InTurn(st, order, k) ==
    IF k > Len(order) THEN st
    ELSE InTurn(Alone(st, order[k]), order, k + 1)

\* The ways of putting the requests of D one after another.
Orderings(D) ==
    {f \in [1..Cardinality(D) -> D] :
        \A i, j \in 1..Cardinality(D) : i # j => f[i] # f[j]}

Answered == {r \in Reqs : Done(r)}

\* C25: in the in-memory server no handler is ever part-way through, and the
\* lessons, the orders, the order id counter and the response of every
\* answered request are those of handling the answered requests one after
\* another in some order.
C25_InMemorySerial ==
    variant = "simple"
    => /\ \A r \in Reqs : req[r].pc \in {"idle", "recv", "done"}
       /\ \E order \in Orderings(Answered) :
             LET st == InTurn(Fresh, order, 1) IN
             /\ st.ls = lessons
             /\ st.os = orders
             /\ st.next = nextOrderId
             /\ \A r \in Answered : st.ans[r] = Answer(req[r])

\* Two bookings of the last unit of L1 were sent together; the one handled
\* second was refused.
C25_Witness ==
    /\ variant = "simple"
    /\ catalog0[1].space = 1
    /\ req[1].snap = catalog0 /\ req[2].snap = catalog0
    /\ IsOrder(1) /\ req[1].items = OneItem /\ Done(1)
    /\ req[1].status = 400 /\ req[1].error = "capacity"
    /\ IsOrder(2) /\ req[2].items = OneItem /\ Succeeded(2)
    /\ lessons[1].space = 0

\* C26: in the in-memory server the orders of the ledger carry the ids 1..n
\* in ledger order, and nextOrderId is n + 1: a refused booking takes no id.
C26_OrderIdsDense ==
    variant = "simple"
    => /\ nextOrderId = Len(orders) + 1
       /\ \A i \in 1..Len(orders) : orders[i]._id = i

\* A booking was refused and a later one accepted, with order id 1.
C26_Witness ==
    /\ variant = "simple"
    /\ IsOrder(1) /\ Done(1) /\ req[1].status = 400
    /\ Succeeded(2)
    /\ Len(orders) = 1 /\ orders[1]._id = 1 /\ orders[1].owner = 2
    /\ nextOrderId = 2

====
